---- MODULE Spec2Model ----
(***************************************************************************)
(* Model of kfcicli: the git repository client (kfcicli/repository.py)     *)
(* and the multi-repository orchestrator (kfcicli/main.py).                *)
(*                                                                         *)
(* A repository is a record: the local clone (checked-out branch, local    *)
(* heads, index, working tree, stash stack), its remote "origin" (remote   *)
(* heads, open pull requests) and the commit store.  Files are atomic      *)
(* values: a path holds one content, "absent" when the file does not       *)
(* exist.  Git commands are modelled by what git does on such files.       *)
(***************************************************************************)
EXTENDS Integers, Sequences, FiniteSets, TLC

(***************************************************************************)
(* Bounds of the model.                                                    *)
(***************************************************************************)
MaxCommits == 4        \* commits a repository's store may hold in a job
MaxStash == 2          \* stash entries a clone may hold
MaxJobs == 2           \* orchestrator jobs run one after another
MaxSteps == 2          \* steps of one caller-supplied transformation
MaxUnits == 3          \* units the terraform modules of one job declare
MaxPulls == 2          \* pull requests of one merge batch
MaxReviews == 2        \* reviews submitted on one pull request
MaxRemotePulls == 3    \* pull requests the remote of one repository holds
MaxTerms == 2          \* change summaries added up in one fold

BranchNames == {"main", "track", "wb"}
TagNames == {"t1", "t2"}
Paths == {"a", "b"}
FileContents == {"absent", "v1", "v2"}
\* what a with body or a transformation step may write
BodyEdits == {<<>>} \cup {[p \in {"a"} |-> c] : c \in {"v2", "absent"}}
ConflictContent == "conflict"      \* a file left with conflict markers
Contents == FileContents \cup {ConflictContent}

(***************************************************************************)
(* Exceptions a call may end with.                                         *)
(***************************************************************************)
NoError == "none"
GitCommandError == "GitCommandError"
RepositoryClientError == "RepositoryClientError"
AttributeError == "AttributeError"
InputError == "InputError"
TransformError == "TransformError"
AssertionError == "AssertionError"
GithubException == "GithubException"

Outcome(r, e) == [r |-> r, err |-> e]

(***************************************************************************)
(* Reading a repository.                                                   *)
(***************************************************************************)
current_branch(r) == r.cur
current_commit(r) == r.heads[r.cur]
branches(r) == {b \in BranchNames : r.heads[b] # 0}
remote_branches(r) == {b \in BranchNames : r.rheads[b] # 0}
TreeOf(r, c) == r.commits[c].tree
HeadTree(r) == TreeOf(r, current_commit(r))

RECURSIVE IsAncestor(_, _, _)
IsAncestor(r, a, c) ==
    IF c = 0 THEN FALSE
    ELSE IF a = c THEN TRUE
    ELSE IsAncestor(r, a, r.commits[c].parent)

\* a status that looks at tracked files only
IsDirtyTracked(r) ==
    \/ r.idx # HeadTree(r)
    \/ \E p \in Paths : r.idx[p] # "absent" /\ r.wt[p] # r.idx[p]
    \/ r.unmerged # {}

\* Client.is_dirty(None): Repo.is_dirty(untracked_files=True)
IsDirty(r) == r.idx # HeadTree(r) \/ r.wt # r.idx \/ r.unmerged # {}

(***************************************************************************)
(* Git commands.                                                           *)
(***************************************************************************)
\* git add <directory>: stage what lies under the directory
GitAdd(r, dir) ==
    [r EXCEPT !.idx = [p \in Paths |-> IF p \in dir THEN r.wt[p] ELSE r.idx[p]],
              !.unmerged = r.unmerged \ dir]

\* git add fails on a directory that matches no file of the working tree
\* and none of the index; "." always matches
PathspecMatches(r, dir) ==
    dir = Paths \/ \E p \in dir : r.wt[p] # "absent" \/ r.idx[p] # "absent"

\* git stash, called after git add .: the staged tree is saved, the clone is
\* reset to HEAD
GitStash(r) ==
    IF ~IsDirty(r) THEN r
    ELSE [r EXCEPT !.stash = <<[base |-> HeadTree(r), tree |-> r.wt]>> \o r.stash,
                   !.idx = HeadTree(r),
                   !.wt = HeadTree(r)]

\* git fetch --all; git checkout <name> --  on a clean working tree.  A name
\* that is no local branch but a branch of the remote becomes a local
\* tracking branch; a name that exists nowhere is an invalid reference.
GitCheckout(r, name) ==
    IF r.heads[name] # 0
    THEN Outcome([r EXCEPT !.cur = name,
                           !.idx = TreeOf(r, r.heads[name]),
                           !.wt = TreeOf(r, r.heads[name])], NoError)
    ELSE IF r.rheads[name] # 0
    THEN Outcome([r EXCEPT !.cur = name,
                           !.heads[name] = r.rheads[name],
                           !.idx = TreeOf(r, r.rheads[name]),
                           !.wt = TreeOf(r, r.rheads[name])], NoError)
    ELSE Outcome(r, GitCommandError)

\* three-way merge of one file
Merge3(base, ours, theirs) ==
    IF theirs = base THEN ours
    ELSE IF ours = base THEN theirs
    ELSE IF ours = theirs THEN ours
    ELSE ConflictContent

PopConflicts(r) ==
    {p \in Paths : /\ Head(r.stash).tree[p] # Head(r.stash).base[p]
                   /\ HeadTree(r)[p] # Head(r.stash).base[p]
                   /\ HeadTree(r)[p] # Head(r.stash).tree[p]}

\* what a three-way merge of the stash entry e leaves on the tree `ours`
MergedTree(e, ours) ==
    [p \in Paths |-> Merge3(e.base[p], ours[p], e.tree[p])]

\* git stash pop on a clean working tree.  Without conflict the entry is
\* applied and dropped, files the stash added come back staged.  With a
\* conflict git exits 1 with CONFLICT on stdout, keeps the entry, leaves the
\* conflicting files unmerged and the others staged.
GitStashPop(r) ==
    IF r.stash = <<>> THEN Outcome(r, GitCommandError)
    ELSE IF PopConflicts(r) = {}
    THEN Outcome([r EXCEPT
            !.stash = Tail(r.stash),
            !.wt = MergedTree(Head(r.stash), HeadTree(r)),
            !.idx = [p \in Paths |->
                       IF Head(r.stash).base[p] = "absent"
                       THEN MergedTree(Head(r.stash), HeadTree(r))[p]
                       ELSE HeadTree(r)[p]]], NoError)
    ELSE Outcome([r EXCEPT
            !.wt = MergedTree(Head(r.stash), HeadTree(r)),
            !.idx = MergedTree(Head(r.stash), HeadTree(r)),
            !.unmerged = PopConflicts(r)], "CONFLICT")

\* A reset that leaves the index as the pop left it
GitResetSkipped(r) == r

\* git reset
GitReset(r) == [r EXCEPT !.idx = HeadTree(r), !.unmerged = {}]

\* git push -u [-f] origin <branch>
GitPush(r, b, force) ==
    IF \/ force
       \/ r.rheads[b] = 0
       \/ IsAncestor(r, r.rheads[b], r.heads[b])
    THEN Outcome([r EXCEPT !.rheads[b] = r.heads[b]], NoError)
    ELSE Outcome(r, GitCommandError)

(***************************************************************************)
(* Client._safe_pop_stash: a conflicting pop is logged and resolved with   *)
(* checkout --theirs <docs_path>; Client defines no docs_path, so reading  *)
(* it raises AttributeError.                                               *)
(***************************************************************************)
PopHandled(pop) ==
    IF pop.err = NoError THEN pop
    ELSE IF pop.err = "CONFLICT" THEN Outcome(pop.r, AttributeError)
    ELSE Outcome(pop.r, RepositoryClientError)

SafePopStash(r) == PopHandled(GitStashPop(r))

(***************************************************************************)
(* An exception raised in a finally block replaces the one in flight;      *)
(* otherwise the one in flight goes on.                                    *)
(***************************************************************************)
Finally(exit, err) ==
    IF exit.err # NoError THEN exit ELSE Outcome(exit.r, err)

(***************************************************************************)
(* Client.switch: add and stash when dirty; fetch and checkout; finally,   *)
(* when it was dirty, pop the stash and reset.                             *)
(***************************************************************************)
SwitchReset(pop, err) ==
    IF pop.err # NoError THEN pop ELSE Outcome(GitReset(pop.r), err)

SwitchFinally(checkout, is_dirty) ==
    IF ~is_dirty THEN checkout
    ELSE SwitchReset(SafePopStash(checkout.r), checkout.err)

Switch(r, branch_name) ==
    SwitchFinally(GitCheckout(IF IsDirty(r) THEN GitStash(GitAdd(r, Paths))
                                            ELSE r, branch_name),
                  IsDirty(r))

(***************************************************************************)
(* Client.with_branch: entering the scope and leaving it                   *)
(***************************************************************************)
\* An exit that does not switch back
WithBranchExitStays(r, saved) == Outcome(r, NoError)

WithBranchExit(r, saved) == Switch(r, saved)

\* the initial switch raised: the finally block still switches back
WithBranchEntered(enter, saved) ==
    IF enter.err = NoError THEN enter
    ELSE Finally(WithBranchExit(enter.r, saved), enter.err)

WithBranchEnter(r, branch_name) ==
    WithBranchEntered(Switch(r, branch_name), current_branch(r))

(***************************************************************************)
(* Client.push: the branch is pushed from inside a with_branch scope; a    *)
(* GitCommandError is raised again as it is.                               *)
(***************************************************************************)
PushLeave(pushed, saved) ==
    Finally(WithBranchExit(pushed.r, saved), pushed.err)

PushInScope(enter, saved, force) ==
    IF enter.err # NoError THEN enter
    ELSE PushLeave(GitPush(enter.r, current_branch(enter.r), force), saved)

Push(r, branch_name, force) ==
    PushInScope(WithBranchEnter(r, branch_name), current_branch(r), force)

\* git commit: fails when nothing is staged or a path is unmerged
GitCommit(r) ==
    IF r.idx = HeadTree(r) \/ r.unmerged # {}
    THEN Outcome(r, GitCommandError)
    ELSE Outcome([r EXCEPT
            !.commits = Append(r.commits,
                               [parent |-> current_commit(r), tree |-> r.idx]),
            !.heads[r.cur] = Len(r.commits) + 1], NoError)

\* An update_branch that lets a GitCommandError through as it is
Unwrapped(out) == out

(***************************************************************************)
(* Client.update_branch: git add -A <directory>, git commit, push; a       *)
(* GitCommandError becomes RepositoryClientError.                          *)
(***************************************************************************)
Wrapped(out) ==
    IF out.err = GitCommandError THEN Outcome(out.r, RepositoryClientError)
    ELSE out

Committed(commit, push, force) ==
    IF commit.err # NoError THEN Wrapped(commit)
    ELSE IF ~push THEN commit
    ELSE Wrapped(Push(commit.r, current_branch(commit.r), force))

\* An update_branch that pushes whatever its push argument says
UpdateBranchAlwaysPushes(r, directory, push, force) ==
    IF ~PathspecMatches(r, directory) THEN Outcome(r, RepositoryClientError)
    ELSE Committed(GitCommit(GitAdd(r, directory)), TRUE, force)

UpdateBranch(r, directory, push, force) ==
    IF ~PathspecMatches(r, directory) THEN Wrapped(Outcome(r, GitCommandError))
    ELSE Committed(GitCommit(GitAdd(r, directory)), push, force)

\* A create_branch that checks the new branch out, as git checkout -B does
CreateBranchSwitches(r, branch_name, base) ==
    IF r.heads[base] = 0 THEN Outcome(r, RepositoryClientError)
    ELSE Outcome([r EXCEPT !.heads[branch_name] = r.heads[base],
                           !.cur = branch_name], NoError)

(***************************************************************************)
(* Client.create_branch: git branch -D <name> when the name is a local     *)
(* branch, then git branch <name> <base>.                                  *)
(***************************************************************************)
CreateBranch(r, branch_name, base) ==
    LET deleted == [r EXCEPT !.heads[branch_name] = 0]
    IN  IF branch_name \in branches(r) /\ branch_name = current_branch(r)
        THEN Outcome(r, RepositoryClientError)
        ELSE IF deleted.heads[base] = 0
        THEN Outcome(deleted, RepositoryClientError)
        ELSE Outcome([deleted EXCEPT !.heads[branch_name] = deleted.heads[base]],
                     NoError)

(***************************************************************************)
(* Pull requests of the remote.                                            *)
(***************************************************************************)
\* Repository.get_pulls of the remote API: state defaults to "open"
get_pulls(r) == {pr \in r.prs : pr.state = "open"}

\* the pulls get_pull_request keeps: pull.head.ref == branch_name
OpenPulls(r, branch_name) == {pr \in get_pulls(r) : pr.head = branch_name}

\* A get_pull_request that takes the first pull request whatever their number
GetPullRequestErrNever(r, branch_name) == NoError

\* Client.get_pull_request: the error it raises, and whether it returns one
GetPullRequestErr(r, branch_name) ==
    IF Cardinality(OpenPulls(r, branch_name)) > 1
    THEN RepositoryClientError ELSE NoError

\* A lookup that finds no pull request
GetPullRequestBlind(r, branch_name) == FALSE

GetPullRequest(r, branch_name) == OpenPulls(r, branch_name) # {}

\* what get_pull_request returns: None, or open_pull[0]
PullRequestOf(r, branch_name) ==
    IF OpenPulls(r, branch_name) = {} THEN {}
    ELSE {CHOOSE pr \in OpenPulls(r, branch_name) : TRUE}

\* Repository.create_pull of the remote API: the head and the base must be
\* branches of the remote
CreatePull(r, head, base) ==
    IF r.rheads[head] = 0 \/ r.rheads[base] = 0
    THEN Outcome(r, "GithubException")
    ELSE Outcome([r EXCEPT !.prs = r.prs \cup
            {[id |-> Cardinality(r.prs) + 1, head |-> head, base |-> base,
              state |-> "open"]}],
            NoError)

(***************************************************************************)
(* git diff --raw -M between two trees x (the a side) and y (the b side):  *)
(* one entry per changed path, a deleted file and an added file of the     *)
(* same content being one rename entry under the old path.                 *)
(***************************************************************************)
RenamedFrom(x, y) ==
    {p \in Paths : /\ x[p] # "absent" /\ y[p] = "absent"
                   /\ \E q \in Paths : x[q] = "absent" /\ y[q] = x[p]}

RenamedTo(x, y) ==
    {q \in Paths : /\ x[q] = "absent" /\ y[q] # "absent"
                   /\ \E p \in Paths : x[p] = y[q] /\ y[p] = "absent"}

ChangeType(x, y, p) ==
    IF p \in RenamedFrom(x, y) THEN "R"
    ELSE IF x[p] = "absent" THEN "A"
    ELSE IF y[p] = "absent" THEN "D"
    ELSE "M"

RawDiff(x, y) ==
    {[a_path |-> p, change_type |-> ChangeType(x, y, p)] :
        p \in {q \in Paths : x[q] # y[q]} \ RenamedTo(x, y)}

\* IndexFile.diff(None): the index against the working tree; a file the
\* index does not hold is untracked and is not listed
IndexDiff(r) ==
    RawDiff(r.idx, [p \in Paths |-> IF r.idx[p] = "absent" THEN "absent"
                                    ELSE r.wt[p]])

\* Commit.diff(): the HEAD commit against the index
HeadDiff(r) == RawDiff(HeadTree(r), r.idx)

(***************************************************************************)
(* DiffSummary.from_raw_diff and DiffSummary.__add__.                      *)
(***************************************************************************)
from_raw_diff(diffs) ==
    [is_dirty |-> diffs # {},
     new      |-> {d.a_path : d \in {e \in diffs : e.change_type = "A"}},
     removed  |-> {d.a_path : d \in {e \in diffs : e.change_type = "D"}},
     modified |-> {d.a_path : d \in {e \in diffs : e.change_type \in {"R", "M"}}}]

\* An addition that takes the dirty flag of its left operand
SummaryAddLeftDirty(self, other) ==
    [is_dirty |-> self.is_dirty,
     new      |-> self.new \cup other.new,
     removed  |-> self.removed \cup other.removed,
     modified |-> self.modified \cup other.modified]

SummaryAdd(self, other) ==
    [is_dirty |-> self.is_dirty \/ other.is_dirty,
     new      |-> self.new \cup other.new,
     removed  |-> self.removed \cup other.removed,
     modified |-> self.modified \cup other.modified]

\* the summary of no difference: DiffSummary.from_raw_diff([])
EmptySummary == from_raw_diff({})

\* every DiffSummary over the paths of the model
Summaries == [is_dirty : BOOLEAN, new : SUBSET Paths, removed : SUBSET Paths,
              modified : SUBSET Paths]

\* what get_summary returns once the directory is staged
SummaryOf(r) == SummaryAdd(from_raw_diff(IndexDiff(r)), from_raw_diff(HeadDiff(r)))

\* The directory ".." of get_summary("..") lies outside the repository
OutsideRepository == {".."}

\* A get_summary for which every directory lies inside the repository
GetSummaryAnywhere(r, directory) == Outcome(GitAdd(r, Paths), NoError)

(***************************************************************************)
(* Client.get_summary: git add <directory>, then the two diffs.            *)
(***************************************************************************)
GetSummary(r, directory) ==
    IF ~(directory \subseteq Paths) THEN Outcome(r, GitCommandError)
    ELSE IF ~PathspecMatches(r, directory) THEN Outcome(r, GitCommandError)
    ELSE Outcome(GitAdd(r, directory), NoError)

(***************************************************************************)
(* Client.create_pull_request: the body defaults to get_summary(".."),     *)
(* the current branch is pushed, the pull request is created.              *)
(***************************************************************************)
PullCreated(created) ==
    IF created.err # NoError THEN Outcome(created.r, RepositoryClientError)
    ELSE created

PullPushed(pushed, base) ==
    IF pushed.err # NoError THEN pushed
    ELSE PullCreated(CreatePull(pushed.r, current_branch(pushed.r), base))

\* A create_pull_request that creates the pull request without pushing
PullSummarisedUnpushed(summary, base) ==
    IF summary.err # NoError THEN summary
    ELSE PullPushed(Outcome(summary.r, NoError), base)

PullSummarised(summary, base) ==
    IF summary.err # NoError THEN summary
    ELSE PullPushed(Push(summary.r, current_branch(summary.r), FALSE), base)

CreatePullRequest(r, base, body) ==
    PullSummarised(IF body THEN Outcome(r, NoError)
                   ELSE GetSummary(r, OutsideRepository), base)

\* files are written to the working copy
WriteFiles(r, edits) ==
    [r EXCEPT !.wt = [p \in Paths |->
                        IF p \in DOMAIN edits THEN edits[p] ELSE r.wt[p]]]

\* A with statement over with_branch whose body writes the files of `edits`
\* (path -> content) and then returns or raises
WithBranchBody(enter, saved, edits, raises) ==
    IF enter.err # NoError THEN enter
    ELSE Finally(WithBranchExit(WriteFiles(enter.r, edits), saved),
                 IF raises THEN TransformError ELSE NoError)

WithBranchScope(r, branch_name, edits, raises) ==
    WithBranchBody(WithBranchEnter(r, branch_name), current_branch(r),
                   edits, raises)

(***************************************************************************)
(* State.                                                                  *)
(***************************************************************************)
VARIABLES
    repos,      \* repository handle -> its clone and its remote
    last,       \* the last client call made directly on a handle
    pc,         \* where the orchestrator stands
    job,        \* the job being run
    cursor,     \* index in the batch of the repository being processed
    ctx,        \* locals of the transaction in progress
    visited,    \* repositories whose transaction the job has started
    njobs,      \* jobs started so far
    tf,         \* the from_tf_modules call in progress
    mg,         \* the PullRequests.merge call in progress
    ds,         \* change summaries being added up
    cr,         \* the create_repository_client_from_url call in progress
    jb          \* a job being built, written and read back

orchVars == <<pc, job, cursor, ctx, visited, njobs>>
gitVars == <<repos, last>>
libVars == <<tf, mg, ds, cr, jb>>
vars == <<repos, last, pc, job, cursor, ctx, visited, njobs, tf, mg, ds, cr,
          jb>>

Batch == <<"r1", "r2">>
RepoIds == {Batch[k] : k \in DOMAIN Batch}

\* main holds file a; track holds another version of it; b is in no commit
RootTree == [p \in Paths |-> IF p = "a" THEN "v1" ELSE "absent"]
TrackTree == [p \in Paths |-> IF p = "a" THEN "v2" ELSE "absent"]

\* A fresh clone of a remote that has main and, when hasTrack, track
Clone(hasTrack) ==
    [cur |-> "main",
     heads |-> [b \in BranchNames |-> IF b = "main" THEN 1 ELSE 0],
     rheads |-> [b \in BranchNames |->
                    IF b = "main" THEN 1
                    ELSE IF b = "track" /\ hasTrack THEN 2 ELSE 0],
     commits |-> <<[parent |-> 0, tree |-> RootTree],
                   [parent |-> 1, tree |-> TrackTree]>>,
     idx |-> RootTree,
     wt |-> RootTree,
     unmerged |-> {},
     stash |-> <<>>,
     prs |-> {},
     tags |-> [t \in TagNames |-> 0],
     rtags |-> [t \in TagNames |-> 0]]

NoCall == [op |-> "none", arg |-> "", err |-> NoError,
           cur |-> "", hash |-> 0, dirty |-> FALSE, ret |-> {}]

NoJob == [kind |-> "none", dry_run |-> FALSE, tag_regex |-> "None"]
NoCtx == [current_branch |-> "main", hash |-> 0, saved |-> "main",
          steps |-> 0, commits |-> 0, pull |-> FALSE, exc |-> NoError]

\* no from_tf_modules call and no merge call has started
NoTf == [units |-> <<>>, pos |-> 1, groups |-> <<>>, opened |-> <<>>,
         err |-> NoError, done |-> FALSE]
NoMerge == [pulls |-> <<>>, force |-> FALSE, pos |-> 1, issued |-> <<>>,
            results |-> <<>>, err |-> NoError]

\* credentials: None, or a GitCredentials(username, access_token)
NoCredentials == [none |-> TRUE, username |-> "", access_token |-> ""]
Credentials ==
    {NoCredentials} \cup [none : {FALSE}, username : {"", "user"},
                          access_token : {"", "token"}]

NoCreate == [credentials |-> NoCredentials, url |-> "https", exists |-> "missing",
             at |-> "credentials", ops |-> <<>>, origin |-> "none",
             err |-> NoError]

NoSum == [acc |-> EmptySummary, terms |-> <<>>]

\* no job is being built
NoJb == [at |-> "none", units |-> <<>>, data |-> <<>>, env |-> {}, job |-> <<>>,
         text |-> <<>>, back |-> <<>>, err |-> NoError]

InitLib ==
    /\ tf = NoTf
    /\ mg = NoMerge
    /\ ds = NoSum
    /\ cr = NoCreate
    /\ jb = NoJb

InitOrch ==
    /\ pc = "idle"
    /\ job = NoJob
    /\ cursor = 1
    /\ ctx = NoCtx
    /\ visited = {}
    /\ njobs = 0

\* the first repository has the release branch on its remote, the second
\* has not
Init ==
    /\ repos = [h \in RepoIds |-> Clone(h = Batch[1])]
    /\ last = NoCall
    /\ InitOrch
    /\ InitLib

InitGit ==
    /\ repos \in {[h \in RepoIds |-> Clone(t)] : t \in BOOLEAN}
    /\ last = NoCall
    /\ InitOrch
    /\ InitLib


(***************************************************************************)
(* KubeflowCI: the jobs run over the batch, one repository after another.  *)
(* Every job uses the same working branch; the charms of a repository      *)
(* track the release branch.                                               *)
(***************************************************************************)
WorkBranch == "wb"
ReleaseBranch == "track"
JobKinds == {"canon_run", "cut_release", "update_image_tags"}
CharmDir == {"a"}

\* the test that guards create_pull_request in canon_run and cut_release
ShouldOpenAnyCommit(r, dry_run, hash) ==
    ~dry_run /\ ~GetPullRequest(r, WorkBranch)

ShouldOpen(r, dry_run, hash) ==
    ~dry_run /\ ~GetPullRequest(r, WorkBranch) /\ current_commit(r) # hash

\* cut_release before the working branch: the release branch is created
\* from main when no local or remote branch has its name, checked out, and
\* pushed unless the job is a dry run
\* A preamble that leaves the release branch unpushed
CutNotPushed(switched, dry_run) == switched

CutPushed(switched, dry_run) ==
    IF switched.err # NoError \/ dry_run THEN switched
    ELSE Push(switched.r, current_branch(switched.r), FALSE)

CutSwitched(created, dry_run) ==
    IF created.err # NoError THEN created
    ELSE CutPushed(Switch(created.r, ReleaseBranch), dry_run)

CutPreamble(r, dry_run) ==
    CutSwitched(IF ReleaseBranch \in remote_branches(r) \cup branches(r)
                THEN Outcome(r, NoError)
                ELSE CreateBranch(r, ReleaseBranch, "main"), dry_run)

\* create_branch(branch_name, current_branch).with_branch(branch_name)
ScopeOpened(created) ==
    IF created.err # NoError THEN created
    ELSE WithBranchEnter(created.r, WorkBranch)

OpenScope(r) == ScopeOpened(CreateBranch(r, WorkBranch, current_branch(r)))

\* A loop that keeps working on the first repository of the batch
CurrentFirst == Batch[1]

Current == Batch[cursor]

\* The transaction of the current repository starts from `prepared`: the
\* working branch is cut and entered, or the exception leaves the job.
EnteredJob(prepared, opened, tag_regex) ==
    /\ repos' = [repos EXCEPT ![Current] = opened.r]
    /\ visited' = visited \cup {Current}
    /\ ctx' = [current_branch |-> current_branch(prepared.r),
               hash |-> current_commit(prepared.r),
               saved |-> current_branch(prepared.r),
               steps |-> 0, commits |-> 0, pull |-> FALSE,
               exc |-> opened.err]
    /\ pc' = IF opened.err = NoError THEN "body" ELSE "idle"
    /\ job' = [job EXCEPT !.tag_regex = tag_regex]
    /\ UNCHANGED <<last, cursor, njobs>>
    /\ UNCHANGED libVars

Entered(prepared, opened) == EnteredJob(prepared, opened, job.tag_regex)

EnterTransaction(prepared) ==
    Entered(prepared, IF prepared.err # NoError THEN prepared
                      ELSE OpenScope(prepared.r))

StartJob(kind, dry_run, tag_regex) ==
    /\ pc = "idle"
    /\ njobs < MaxJobs
    /\ kind = "update_image_tags" => ~dry_run
    /\ kind # "update_image_tags" => tag_regex = "None"
    /\ job' = [kind |-> kind, dry_run |-> dry_run, tag_regex |-> tag_regex]
    /\ njobs' = njobs + 1
    /\ cursor' = 1
    /\ visited' = {}
    /\ ctx' = NoCtx
    /\ pc' = "loop"
    /\ UNCHANGED <<repos, last>>
    /\ UNCHANGED libVars

InLoop(kind) ==
    /\ pc = "loop"
    /\ cursor <= Len(Batch)
    /\ job.kind = kind

CanonRunBegin ==
    /\ InLoop("canon_run")
    /\ EnterTransaction(Outcome(repos[Current], NoError))

CutReleaseBegin ==
    /\ InLoop("cut_release")
    /\ EnterTransaction(CutPreamble(repos[Current], job.dry_run))

\* update_image_tags: tag_regex is the argument of the call, None or a
\* pattern; on a release branch a pattern is inferred from the branch when
\* tag_regex holds none, and assigned to tag_regex
TagFilters == {"None", "given"}

Inferred(tag_regex, branch) ==
    IF tag_regex = "None" /\ branch = ReleaseBranch THEN branch ELSE tag_regex

UpdateImageTagsBegin ==
    /\ InLoop("update_image_tags")
    /\ EnteredJob(Outcome(repos[Current], NoError), OpenScope(repos[Current]),
                  Inferred(job.tag_regex, current_branch(repos[Current])))

(***************************************************************************)
(* Client calls made directly on the handle of the first repository.       *)
(***************************************************************************)
Handle == "r1"

\* `last` keeps the last call: its argument, its result, and the branch,
\* commit and dirty status it started from; ret holds the value returned
Returned(op, arg, out, ret) ==
    /\ repos' = [repos EXCEPT ![Handle] = out.r]
    /\ last' = [op |-> op, arg |-> arg, err |-> out.err,
                cur |-> current_branch(repos[Handle]),
                hash |-> current_commit(repos[Handle]),
                dirty |-> IsDirty(repos[Handle]),
                ret |-> ret]
    /\ UNCHANGED orchVars
    /\ UNCHANGED libVars

Called(op, arg, out) == Returned(op, arg, out, {})

WithinBounds(r) == Len(r.stash) < MaxStash

CallSwitch(name) ==
    /\ WithinBounds(repos[Handle])
    /\ Called("switch", name, Switch(repos[Handle], name))

CallWithBranch(name, edits, raises) ==
    /\ WithinBounds(repos[Handle])
    /\ Called("with_branch", name,
              WithBranchScope(repos[Handle], name, edits, raises))

\* a file of the working copy is written or removed
CallEdit(p, c) ==
    /\ repos[Handle].wt[p] # c
    /\ Called("edit", p, Outcome([repos[Handle] EXCEPT !.wt[p] = c], NoError))

NextGit ==
    \/ \E name \in BranchNames : CallSwitch(name)
    \/ \E name \in BranchNames, edits \in BodyEdits, raises \in BOOLEAN :
          CallWithBranch(name, edits, raises)
    \/ \E p \in Paths, c \in FileContents : CallEdit(p, c)

SpecGit == InitGit /\ [][NextGit]_vars

InBody(kinds) ==
    /\ pc = "body"
    /\ job.kind \in kinds

\* The body of the scope went on to out.r; an exception ends the body
BodyStep(out, commits) ==
    /\ repos' = [repos EXCEPT ![Current] = out.r]
    /\ ctx' = [ctx EXCEPT !.steps = ctx.steps + 1,
                          !.commits = ctx.commits + commits,
                          !.exc = out.err]
    /\ pc' = IF out.err = NoError THEN "body" ELSE "exit"
    /\ UNCHANGED <<last, job, cursor, visited, njobs>>
    /\ UNCHANGED libVars

\* One step of the transformation of canon_run or cut_release: files are
\* written, then update_branch(directory=".", push=not dry_run, force=True)
\* is called, behind `if repo.is_dirty()` when guarded.
Updated(out) == BodyStep(out, IF out.err = NoError THEN 1 ELSE 0)

Transformed(r, guarded) ==
    IF guarded /\ ~IsDirty(r) THEN BodyStep(Outcome(r, NoError), 0)
    ELSE Updated(UpdateBranch(r, Paths, ~job.dry_run, TRUE))

TransformStep(edits, guarded) ==
    /\ InBody({"canon_run", "cut_release"})
    /\ ctx.steps < MaxSteps
    /\ Len(repos[Current].commits) < MaxCommits
    /\ job.kind = "cut_release" => guarded
    /\ Transformed(WriteFiles(repos[Current], edits), guarded)

\* The transformation raises
TransformRaises ==
    /\ InBody({"canon_run", "cut_release"})
    /\ BodyStep(Outcome(repos[Current], TransformError), 0)

\* One charm of update_image_tags: a new tag is written to its metadata
\* file and update_branch(msg, charm directory) commits and pushes it
TagWritten(r) ==
    IF ~IsDirty(r) THEN BodyStep(Outcome(r, NoError), 0)
    ELSE Updated(UpdateBranch(r, CharmDir, TRUE, FALSE))

ImageTagStep(tag) ==
    /\ InBody({"update_image_tags"})
    /\ ctx.steps < MaxSteps
    /\ Len(repos[Current].commits) < MaxCommits
    /\ \A p \in CharmDir : repos[Current].wt[p] \notin {"absent", tag}
    /\ TagWritten(WriteFiles(repos[Current], [p \in CharmDir |-> tag]))

\* One charm of update_image_tags whose image already has the last tag
ImageTagCurrent ==
    /\ InBody({"update_image_tags"})
    /\ ctx.steps < MaxSteps
    /\ BodyStep(Outcome(repos[Current], NoError), 0)

\* No tag matches, or the metadata is not a metadata.yaml
ImageTagRaises ==
    /\ InBody({"update_image_tags"})
    /\ BodyStep(Outcome(repos[Current], InputError), 0)

\* The end of the body: `pull` is what get_pull_request returned, when it
\* was called
Reconciled(out, pull) ==
    /\ repos' = [repos EXCEPT ![Current] = out.r]
    /\ ctx' = [ctx EXCEPT !.exc = out.err, !.pull = pull]
    /\ pc' = "exit"
    /\ UNCHANGED <<last, job, cursor, visited, njobs>>
    /\ UNCHANGED libVars

\* canon_run and cut_release: the pull request is opened when the job is no
\* dry run, the working branch has no open pull request and its commit is
\* not the recorded one
Reconcile ==
    /\ InBody({"canon_run", "cut_release"})
    /\ IF ~job.dry_run /\ GetPullRequestErr(repos[Current], WorkBranch) # NoError
       THEN Reconciled(Outcome(repos[Current], RepositoryClientError), FALSE)
       ELSE IF ShouldOpen(repos[Current], job.dry_run, ctx.hash)
       THEN Reconciled(CreatePullRequest(repos[Current], ctx.current_branch, TRUE),
                       FALSE)
       ELSE Reconciled(Outcome(repos[Current], NoError),
                       ~job.dry_run /\ GetPullRequest(repos[Current], WorkBranch))

\* update_image_tags: create_pull_request(current_branch, title=title)
ImageTagsReconcile ==
    /\ InBody({"update_image_tags"})
    /\ Reconciled(CreatePullRequest(repos[Current], ctx.current_branch, FALSE),
                  FALSE)

\* The scope is left: the branch is switched back, and an exception of the
\* body or of the switch leaves the loop
\* An exit that rolls the remote working branch back when the body raised
ExitedReverted(out) ==
    /\ repos' = [repos EXCEPT ![Current] =
                    IF ctx.exc = NoError THEN out.r
                    ELSE [out.r EXCEPT !.rheads[WorkBranch] = 0]]
    /\ ctx' = [ctx EXCEPT !.exc = out.err]
    /\ pc' = IF out.err = NoError THEN "loop" ELSE "idle"
    /\ cursor' = IF out.err = NoError THEN cursor + 1 ELSE cursor
    /\ UNCHANGED <<last, job, visited, njobs>>
    /\ UNCHANGED libVars

Exited(out) ==
    /\ repos' = [repos EXCEPT ![Current] = out.r]
    /\ ctx' = [ctx EXCEPT !.exc = out.err]
    /\ pc' = IF out.err = NoError THEN "loop" ELSE "idle"
    /\ cursor' = IF out.err = NoError THEN cursor + 1 ELSE cursor
    /\ UNCHANGED <<last, job, visited, njobs>>
    /\ UNCHANGED libVars

ExitScope ==
    /\ pc = "exit"
    /\ Exited(Finally(WithBranchExit(repos[Current], ctx.saved), ctx.exc))

\* The loop has gone through the batch
JobReturns ==
    /\ pc = "loop"
    /\ cursor > Len(Batch)
    /\ pc' = "idle"
    /\ UNCHANGED <<repos, last, job, cursor, ctx, visited, njobs>>
    /\ UNCHANGED libVars

Next ==
    \/ \E kind \in JobKinds, dry_run \in BOOLEAN, tag_regex \in TagFilters :
          StartJob(kind, dry_run, tag_regex)
    \/ CanonRunBegin
    \/ CutReleaseBegin
    \/ UpdateImageTagsBegin
    \/ \E edits \in BodyEdits, guarded \in BOOLEAN : TransformStep(edits, guarded)
    \/ TransformRaises
    \/ \E tag \in {"v1", "v2"} : ImageTagStep(tag)
    \/ ImageTagCurrent
    \/ ImageTagRaises
    \/ Reconcile
    \/ ImageTagsReconcile
    \/ ExitScope
    \/ JobReturns

Spec == Init /\ [][Next]_vars

(***************************************************************************)
(* KubeflowCI.from_tf_modules: the units the modules declare are grouped   *)
(* by URL with itertools.groupby, which starts a new group whenever the    *)
(* key changes; each group is checked, its repository opened and switched  *)
(* to the home branch, and kept when a unit of it has metadata.            *)
(***************************************************************************)
Urls == {"u1", "u2"}
BLACK_LIST == {"mysql"}
HomeBranches == {"main", "track"}
Units == [url : Urls \cup BLACK_LIST, branch : HomeBranches]

RECURSIVE SeqsUpTo(_, _)
SeqsUpTo(S, n) ==
    IF n = 0 THEN {<<>>}
    ELSE SeqsUpTo(S, n - 1) \cup
         {Append(q, x) : q \in {t \in SeqsUpTo(S, n - 1) : Len(t) = n - 1},
                         x \in S}

RECURSIVE SelectUnits(_)
\* iter_charms: the units in the order of discovery, without the black list
SelectUnits(us) ==
    IF us = <<>> THEN <<>>
    ELSE IF Head(us).url \in BLACK_LIST THEN SelectUnits(Tail(us))
    ELSE <<Head(us)>> \o SelectUnits(Tail(us))

iter_charms == SelectUnits(tf.units)

RECURSIVE RunEnd(_, _)
\* groupby: the last index of the run of equal URLs that starts at i
RunEnd(us, i) ==
    IF i < Len(us) /\ us[i + 1].url = us[i].url THEN RunEnd(us, i + 1)
    ELSE i

GroupBranches(us, i, j) == {us[k].branch : k \in i..j}

\* A construction that a unit without descriptor brings to an end
GroupOpenedFatal(us, i, j, onRemote, found) ==
    IF found # i..j
    THEN tf' = [tf EXCEPT !.err = InputError, !.done = TRUE]
    ELSE tf' = [tf EXCEPT
            !.pos = j + 1,
            !.opened = Append(tf.opened, [url |-> us[i].url,
                                          branch |-> us[i].branch,
                                          switched |-> onRemote,
                                          units |-> i..j, found |-> found]),
            !.groups = Append(tf.groups, [url |-> us[i].url,
                                          branch |-> us[i].branch,
                                          units |-> found])]

\* The group is consistent: the repository is cloned or opened, switched to
\* the home branch when the remote has it; the units whose descriptor is
\* found are kept (safe turns the exception of the others into None), and
\* the repository is kept when a unit is left
GroupOpened(us, i, j, onRemote, found) ==
    tf' = [tf EXCEPT
            !.pos = j + 1,
            !.opened = Append(tf.opened, [url |-> us[i].url,
                                          branch |-> us[i].branch,
                                          switched |-> onRemote,
                                          units |-> i..j, found |-> found]),
            !.groups = IF found # {}
                       THEN Append(tf.groups, [url |-> us[i].url,
                                               branch |-> us[i].branch,
                                               units |-> found])
                       ELSE tf.groups]

\* One turn of the loop over the groups
GroupChecked(us, i, j, onRemote, found) ==
    IF Cardinality(GroupBranches(us, i, j)) # 1
    THEN tf' = [tf EXCEPT !.err = AssertionError, !.done = TRUE]
    ELSE GroupOpened(us, i, j, onRemote, found)

TfGroup(onRemote, found) ==
    /\ ~tf.done
    /\ tf.pos <= Len(iter_charms)
    /\ found \subseteq tf.pos .. RunEnd(iter_charms, tf.pos)
    /\ GroupChecked(iter_charms, tf.pos, RunEnd(iter_charms, tf.pos),
                    onRemote, found)
    /\ UNCHANGED <<gitVars, orchVars, mg, ds, cr, jb>>

TfReturns ==
    /\ ~tf.done
    /\ tf.pos > Len(iter_charms)
    /\ tf' = [tf EXCEPT !.done = TRUE]
    /\ UNCHANGED <<gitVars, orchVars, mg, ds, cr, jb>>

InitTf ==
    /\ repos = [h \in RepoIds |-> Clone(h = Batch[1])]
    /\ last = NoCall
    /\ InitOrch
    /\ mg = NoMerge
    /\ ds = NoSum
    /\ cr = NoCreate
    /\ tf \in {[NoTf EXCEPT !.units = us] : us \in SeqsUpTo(Units, MaxUnits)}
    /\ jb = NoJb

NextTf ==
    \/ \E onRemote \in BOOLEAN, found \in SUBSET (1 .. MaxUnits) :
          TfGroup(onRemote, found)
    \/ TfReturns

SpecTf == InitTf /\ [][NextTf]_vars

(***************************************************************************)
(* Claims about the client, checked under SpecGit.                         *)
(***************************************************************************)
Clone1 == repos[Handle]

\* switch(name) from r stashes, checks out, and the restore conflicts
ConflictsOn(checkout) ==
    /\ checkout.err = NoError
    /\ checkout.r.stash # <<>>
    /\ PopConflicts(checkout.r) # {}

RestoreConflicts(r, name) ==
    /\ IsDirty(r)
    /\ ConflictsOn(GitCheckout(GitStash(GitAdd(r, Paths)), name))

\* C1: when a with_branch(name) scope is exited (the body returned, the body
\* raised, or the initial switch raised) the checked-out branch is the one
\* that was checked out when the scope was entered.
C1_WithBranchRestores ==
    last.op = "with_branch" => current_branch(Clone1) = last.cur

\* a with_branch scope whose initial switch raised on a dirty working copy
C1_Witness ==
    /\ last.op = "with_branch"
    /\ last.err = GitCommandError
    /\ last.dirty
    /\ current_branch(Clone1) = last.cur

\* C7 as stated: switch(X) followed by switch(original branch), neither
\* restore conflicting, restores the checked-out branch and is_dirty().
C7_RoundTripAsStated ==
    [][\A name \in BranchNames :
          (/\ last.op = "switch" /\ last.err = NoError
           /\ name = last.cur
           /\ CallSwitch(name)
           /\ last'.err = NoError)
          => /\ current_branch(repos'[Handle]) = last.cur
             /\ IsDirty(repos'[Handle]) = last.dirty]_vars

\* C8 as stated: a conflicting restore does not fail the switch, and the
\* target branch's content wins on the conflicting paths.
C8_ConflictTargetWins ==
    [][\A name \in BranchNames :
          (CallSwitch(name) /\ RestoreConflicts(Clone1, name))
          => /\ last'.err = NoError
             /\ \A p \in Paths :
                  repos'[Handle].wt[p] # ConflictContent]_vars

\* C9 as stated: switch to a name that exists neither locally nor on the
\* remote signals RepositoryClientError.
C9_MissingBranchError ==
    [][\A name \in BranchNames :
          (CallSwitch(name)
           /\ Clone1.heads[name] = 0 /\ Clone1.rheads[name] = 0)
          => last'.err = RepositoryClientError]_vars

\* C10: switch on a dirty working copy whose restore does not conflict
\* returns with the uncommitted changes in the working tree on the target
\* branch and nothing staged.
C10_DirtySwitchCarries ==
    [][\A name \in BranchNames :
          (CallSwitch(name) /\ IsDirty(Clone1) /\ last'.err = NoError)
          => /\ current_branch(repos'[Handle]) = name
             /\ \A p \in Paths :
                  Clone1.wt[p] # HeadTree(Clone1)[p]
                      => repos'[Handle].wt[p] = Clone1.wt[p]
             /\ repos'[Handle].idx = HeadTree(repos'[Handle])
             /\ repos'[Handle].unmerged = {}]_vars

\* a dirty switch to another branch returned and left an untracked file
C10_Witness ==
    /\ last.op = "switch" /\ last.err = NoError /\ last.dirty
    /\ current_branch(Clone1) # last.cur
    /\ \E p \in Paths : HeadTree(Clone1)[p] = "absent" /\ Clone1.wt[p] = "v2"
    /\ Clone1.idx = HeadTree(Clone1)

(***************************************************************************)
(* Claims about the jobs, checked under Spec.                              *)
(***************************************************************************)
Remote(h) == [rheads |-> repos[h].rheads, prs |-> repos[h].prs]
RemoteAfter(h) == [rheads |-> repos'[h].rheads, prs |-> repos'[h].prs]

\* C2 as stated: a canon_run or cut_release job that has ended has run the
\* transaction of every repository of the batch, whatever failed on the way.
C2_BatchContinues ==
    (pc = "idle" /\ job.kind \in {"canon_run", "cut_release"})
        => visited = RepoIds

\* C3: after any sequence of jobs on the same working branch every
\* repository has at most one open pull request whose head is that branch.
C3_AtMostOnePull ==
    \A h \in RepoIds : Cardinality(OpenPulls(repos[h], WorkBranch)) <= 1

\* a cut_release that committed, with the pull request an earlier canon_run
\* opened against main still the only one
C3_Witness ==
    /\ pc = "idle" /\ njobs >= 2
    /\ job.kind = "cut_release" /\ ~job.dry_run
    /\ ctx.exc = NoError
    /\ \E h \in RepoIds :
          /\ current_branch(repos[h]) = ReleaseBranch
          /\ repos[h].heads[WorkBranch] # repos[h].heads[ReleaseBranch]
          /\ repos[h].rheads[WorkBranch] = repos[h].heads[WorkBranch]
          /\ \E pr \in repos[h].prs : pr.head = WorkBranch /\ pr.base = "main"
          /\ Cardinality(OpenPulls(repos[h], WorkBranch)) = 1

\* C4: a reconcile step that finds an open pull request of the working
\* branch creates nothing, and one that finds none leaves at most one.
C4_ReconcileIdempotent ==
    [][Reconcile =>
          IF OpenPulls(repos[Current], WorkBranch) # {}
          THEN repos'[Current].prs = repos[Current].prs
          ELSE Cardinality(OpenPulls(repos'[Current], WorkBranch)) <= 1]_vars

\* the reconcile step ran again on a new commit and found the pull request
C4_Witness ==
    /\ pc = "exit" /\ njobs >= 2
    /\ job.kind = "canon_run" /\ ~job.dry_run
    /\ ctx.pull /\ ctx.exc = NoError
    /\ current_commit(repos[Current]) # ctx.hash
    /\ \E pr \in repos[Current].prs :
          pr.head = WorkBranch /\ pr.base = ctx.current_branch
    /\ Cardinality(repos[Current].prs) = 1

\* C5: in canon_run and cut_release a pull request is created only when the
\* job is no dry run and the working branch's commit differs from the
\* recorded one, which takes a commit of the transformation.
C5_PullOnlyOnNewCommit ==
    [][\A h \in RepoIds :
          (job.kind \in {"canon_run", "cut_release"}
           /\ repos'[h].prs # repos[h].prs)
          => /\ h = Current
             /\ ~job.dry_run
             /\ current_commit(repos[h]) # ctx.hash
             /\ ctx.commits > 0]_vars

\* a pull request was opened for the commit of a transformation
C5_Witness ==
    /\ pc = "exit"
    /\ job.kind \in {"canon_run", "cut_release"}
    /\ ~ctx.pull /\ ctx.exc = NoError /\ ctx.commits > 0
    /\ OpenPulls(repos[Current], WorkBranch) # {}

\* C6: no step of a dry-run canon_run or cut_release changes the branches
\* or the pull requests of a remote.
C6_DryRunRemoteUnchanged ==
    [][(job.dry_run /\ pc # "idle")
          => \A h \in RepoIds : RemoteAfter(h) = Remote(h)]_vars

\* a dry-run cut_release created the release branch and committed locally
C6_Witness ==
    /\ pc = "exit"
    /\ job.kind = "cut_release" /\ job.dry_run
    /\ ctx.commits > 0
    /\ repos[Current].rheads[ReleaseBranch] = 0
    /\ repos[Current].heads[ReleaseBranch] # 0
    /\ repos[Current].heads[WorkBranch] # repos[Current].heads[ReleaseBranch]

(***************************************************************************)
(* Claims about from_tf_modules, checked under SpecTf.                     *)
(***************************************************************************)
\* two units of one repository declare different home branches
InconsistentBranches(us) ==
    \E i, j \in DOMAIN us : us[i].url = us[j].url /\ us[i].branch # us[j].branch

\* C11 as stated: when the units of one repository declare more than one
\* home branch, from_tf_modules raises InputError and has cloned, opened or
\* switched no repository.
C11_InconsistentBranchesRejected ==
    (tf.done /\ InconsistentBranches(iter_charms))
        => (tf.err = InputError /\ tf.opened = <<>>)

\* C12 as stated: when from_tf_modules returns, no URL has been given two
\* repository handles and no URL owns two groups.
C12_OneGroupPerUrl ==
    (tf.done /\ tf.err = NoError)
        => /\ \A i, j \in DOMAIN tf.opened :
                tf.opened[i].url = tf.opened[j].url => i = j
           /\ \A i, j \in DOMAIN tf.groups :
                tf.groups[i].url = tf.groups[j].url => i = j

(***************************************************************************)
(* PullRequests.merge over a batch of pull requests.  A pull request is    *)
(* what GitHub reports of it: whether it is merged, its mergeable flag     *)
(* (None while GitHub has not computed it) and the states of its reviews.  *)
(***************************************************************************)
Mergeable == {"True", "False", "None"}
ReviewStates == {"APPROVED", "CHANGES_REQUESTED"}
Pulls == [merged : BOOLEAN, mergeable : Mergeable,
          reviews : SeqsUpTo(ReviewStates, MaxReviews)]

\* PullRequests._get_approved_reviews: (approving reviews, reviews)
get_approved_reviews(pr) ==
    <<Cardinality({i \in DOMAIN pr.reviews : pr.reviews[i] = "APPROVED"}),
      Len(pr.reviews)>>

\* approvals[0] * 1.0 / approvals[1], in hundredths; 0 on ZeroDivisionError
ApprovalRatio(approvals) ==
    IF approvals[2] = 0 THEN 0 ELSE (approvals[1] * 100) \div approvals[2]

\* a can_be_merged that does not look at the reviews
can_be_merged_unreviewed(pr) == pr.mergeable = "True"

\* the can_be_merged column of PullRequests._parse_row
can_be_merged(pr) ==
    pr.mergeable = "True" /\ ApprovalRatio(get_approved_reviews(pr)) = 100

\* the loop body skips the pull request: results[_id] = None
Skipped(pr, force) ==
    \/ pr.merged
    \/ ~force /\ ~can_be_merged(pr)

MergeSkip ==
    /\ mg.err = NoError
    /\ mg.pos <= Len(mg.pulls)
    /\ Skipped(mg.pulls[mg.pos], mg.force)
    /\ mg' = [mg EXCEPT !.pos = mg.pos + 1,
                        !.results = Append(mg.results, "None")]
    /\ UNCHANGED <<gitVars, orchVars, tf, ds, cr, jb>>

\* pr.merge(merge_method="squash"): GitHub refuses to merge a pull request
\* that has conflicts, and the GithubException leaves merge
MergeIssue(refused) ==
    /\ mg.err = NoError
    /\ mg.pos <= Len(mg.pulls)
    /\ ~Skipped(mg.pulls[mg.pos], mg.force)
    /\ mg.pulls[mg.pos].mergeable = "True" => ~refused
    /\ mg.pulls[mg.pos].mergeable = "False" => refused
    /\ mg' = IF refused
             THEN [mg EXCEPT !.issued = Append(mg.issued, mg.pos),
                             !.err = GithubException]
             ELSE [mg EXCEPT !.issued = Append(mg.issued, mg.pos),
                             !.pos = mg.pos + 1,
                             !.results = Append(mg.results, "squash")]
    /\ UNCHANGED <<gitVars, orchVars, tf, ds, cr, jb>>

InitMerge ==
    /\ repos = [h \in RepoIds |-> Clone(h = Batch[1])]
    /\ last = NoCall
    /\ InitOrch
    /\ tf = NoTf
    /\ ds = NoSum
    /\ cr = NoCreate
    /\ mg \in {[NoMerge EXCEPT !.pulls = ps, !.force = f] :
                 ps \in SeqsUpTo(Pulls, MaxPulls), f \in BOOLEAN}
    /\ jb = NoJb

NextMerge ==
    \/ MergeSkip
    \/ \E refused \in BOOLEAN : MergeIssue(refused)

SpecMerge == InitMerge /\ [][NextMerge]_vars

\* merge has gone through the batch, or has been left by an exception
MergeEnded == mg.pos > Len(mg.pulls) \/ mg.err # NoError

\* the pull requests a merge was issued for
Issued == {mg.issued[k] : k \in DOMAIN mg.issued}

\* C18: merge with force=false issues no merge for a pull request whose
\* mergeable flag is not true or whose approving reviews are not all of its
\* reviews; a pull request without reviews has ratio 0 and is not merged.
C18_UnforcedMergeNeedsApproval ==
    ~mg.force
        => \A i \in Issued :
              /\ mg.pulls[i].mergeable = "True"
              /\ mg.pulls[i].reviews # <<>>
              /\ \A k \in DOMAIN mg.pulls[i].reviews :
                    mg.pulls[i].reviews[k] = "APPROVED"

\* an unforced merge went through a batch with an approved mergeable pull
\* request, merged, and one without reviews, skipped
C18_Witness ==
    /\ ~mg.force
    /\ MergeEnded
    /\ Issued # {}
    /\ \E i \in DOMAIN mg.pulls :
          /\ i \notin Issued
          /\ ~mg.pulls[i].merged
          /\ mg.pulls[i].mergeable = "True"
          /\ mg.pulls[i].reviews = <<>>

\* C19: merge issues no merge for a pull request that is already merged,
\* whatever force is; with force=true, once merge has ended, one merge has
\* been issued for every pull request of the batch that was not merged.
C19_ForcedMergeIssuesAll ==
    /\ \A i \in Issued : ~mg.pulls[i].merged
    /\ \A j, k \in DOMAIN mg.issued : mg.issued[j] = mg.issued[k] => j = k
    /\ (mg.force /\ MergeEnded)
          => \A i \in DOMAIN mg.pulls : ~mg.pulls[i].merged => i \in Issued

(***************************************************************************)
(* Client calls on one handle: files are edited, branches created and      *)
(* switched, changes summarised and committed.  A directory argument is    *)
(* "." (the whole repository) or the path of one unit.                     *)
(***************************************************************************)
DirNames == {".", "a", "b"}
Dir(name) == IF name = "." THEN Paths ELSE {name}

Summarised(name, out) ==
    Returned("get_summary", name, out,
             IF out.err = NoError THEN {SummaryOf(out.r)} ELSE {})

CallGetSummary(name) ==
    Summarised(name, GetSummary(repos[Handle], Dir(name)))

CallUpdateBranch(name, push, force) ==
    /\ WithinBounds(repos[Handle])
    /\ Len(repos[Handle].commits) < MaxCommits
    /\ Called(IF push THEN "update_branch_push" ELSE "update_branch", name,
              UpdateBranch(repos[Handle], Dir(name), push, force))

CallCreateBranch(name, base) ==
    Called("create_branch", name, CreateBranch(repos[Handle], name, base))

\* the remote of a clone may have moved on since the clone was made
Behind(r, moved) == IF moved THEN [r EXCEPT !.rheads["main"] = 2] ELSE r

InitCommit ==
    /\ repos \in {[h \in RepoIds |-> Behind(Clone(TRUE), moved)] :
                     moved \in BOOLEAN}
    /\ last = NoCall
    /\ InitOrch
    /\ InitLib

NextCommit ==
    \/ \E p \in Paths, c \in FileContents : CallEdit(p, c)
    \/ \E name \in DirNames : CallGetSummary(name)
    \/ \E name \in DirNames, push, force \in BOOLEAN :
          CallUpdateBranch(name, push, force)

SpecCommit == InitCommit /\ [][NextCommit]_vars

(***************************************************************************)
(* Branches of one handle: created, switched to, and moved on by commits.  *)
(***************************************************************************)
\* a switch made with nothing to carry over
CallSwitchClean(name) ==
    /\ ~IsDirty(repos[Handle])
    /\ CallSwitch(name)

NextBranch ==
    \/ \E c \in FileContents : CallEdit("a", c)
    \/ \E name \in BranchNames : CallSwitchClean(name)
    \/ \E name, base \in BranchNames : CallCreateBranch(name, base)
    \/ CallUpdateBranch(".", FALSE, FALSE)

SpecBranch == InitGit /\ [][NextBranch]_vars

\* the working copy differs from the HEAD commit under both units' paths
ChangesUnderBoth(r) == \A p \in Paths : r.wt[p] # HeadTree(r)[p]

\* the files a summary lists
Listed(summaries) == UNION {s.new \cup s.removed \cup s.modified : s \in summaries}

\* C13: with changes under unit A's path "a" and under unit B's path "b",
\* update_branch restricted to "a" commits only the change under "a" (the
\* change under "b" is neither staged nor in the new commit and stays in the
\* working tree), and get_summary for "a" lists exactly the file under "a".
C13_RestrictedToPath ==
    [][(ChangesUnderBoth(Clone1) /\ last'.arg = "a")
        => /\ (last'.op \in {"update_branch", "update_branch_push"}
                  /\ last'.err = NoError)
                => /\ HeadTree(Clone1')["a"] = Clone1.wt["a"]
                   /\ HeadTree(Clone1')["b"] = HeadTree(Clone1)["b"]
                   /\ Clone1'.idx["b"] = HeadTree(Clone1')["b"]
                   /\ Clone1'.wt["b"] = Clone1.wt["b"]
           /\ (last'.op = "get_summary" /\ last'.err = NoError)
                => Listed(last'.ret) = {"a"}]_vars

\* C14: an update_branch that fails, in staging, in the commit or in the push
\* and the branch switches of the push, ends with RepositoryClientError.
C14_UpdateBranchErrorWrapped ==
    last.op \in {"update_branch", "update_branch_push"}
        => last.err \in {NoError, RepositoryClientError}

\* the commit was made and the push of it was rejected
C14_Witness ==
    /\ last.op = "update_branch_push"
    /\ last.err = RepositoryClientError
    /\ current_commit(Clone1) # last.hash
    /\ Clone1.rheads[last.cur] # current_commit(Clone1)

\* C15: create_branch(name, base) on a name that is already a local branch
\* does not fail, and leaves name at the tip base has at the call; so does a
\* second call made right after the first.
C15_RecreateSucceeds ==
    [][\A name, base \in BranchNames :
          (/\ {name, base} \subseteq branches(Clone1)
           /\ CallCreateBranch(name, base))
             => /\ last'.err = NoError
                /\ Clone1'.heads[name] = Clone1.heads[base]]_vars

\* C16: create_branch, whether it succeeds or fails, leaves the checked-out
\* branch, the current commit, the working tree and the index as they were.
C16_CreateBranchStays ==
    [][last'.op = "create_branch"
          => /\ current_branch(Clone1') = current_branch(Clone1)
             /\ current_commit(Clone1') = current_commit(Clone1)
             /\ Clone1'.wt = Clone1.wt
             /\ Clone1'.idx = Clone1.idx]_vars

\* a branch other than the checked-out one was created from the current
\* commit while the working copy held uncommitted changes
C16_Witness ==
    /\ last.op = "create_branch"
    /\ last.err = NoError
    /\ last.arg # last.cur
    /\ last.dirty
    /\ Clone1.heads[last.arg] = last.hash
    /\ current_branch(Clone1) = last.cur

\* C17: when canon_run opens the transaction of a repository whose working
\* branch already exists locally, the working branch is entered as it is:
\* it still points at the commit it pointed at.
C17_WorkBranchKept ==
    [][(/\ pc = "loop" /\ pc' = "body"
        /\ job.kind = "canon_run"
        /\ WorkBranch \in branches(repos[Current]))
          => repos'[Current].heads[WorkBranch]
                = repos[Current].heads[WorkBranch]]_vars

(***************************************************************************)
(* Looking up the pull request of a branch on a remote that holds pull     *)
(* requests, open and closed, from several head branches to several bases. *)
(***************************************************************************)
PullIds == 1 .. MaxRemotePulls
PullKinds == {k \in [head : {"wb", "track"}, base : {"main", "track"},
                     state : {"open", "closed"}] : k.head # k.base}

RemotePulls(kinds) ==
    {[id |-> i, head |-> kinds[i].head, base |-> kinds[i].base,
      state |-> kinds[i].state] : i \in DOMAIN kinds}

WithPulls(r, prs) == [r EXCEPT !.prs = prs]

InitPull ==
    /\ repos \in {[h \in RepoIds |-> WithPulls(Clone(TRUE), RemotePulls(kinds))] :
                     kinds \in UNION {[ids -> PullKinds] : ids \in SUBSET PullIds}}
    /\ last = NoCall
    /\ InitOrch
    /\ InitLib

Looked(name, err) ==
    Returned("get_pull_request", name, Outcome(repos[Handle], err),
             IF err = NoError THEN PullRequestOf(repos[Handle], name) ELSE {})

CallGetPullRequest(name) ==
    Looked(name, GetPullRequestErr(repos[Handle], name))

\* a pull request is closed on the remote
PullCloses(id) ==
    /\ \E pr \in get_pulls(repos[Handle]) : pr.id = id
    /\ Called("close", "",
              Outcome(WithPulls(repos[Handle],
                         {IF pr.id = id THEN [pr EXCEPT !.state = "closed"]
                          ELSE pr : pr \in repos[Handle].prs}), NoError))

NextPull ==
    \/ \E name \in BranchNames : CallGetPullRequest(name)
    \/ \E id \in PullIds : PullCloses(id)

SpecPull == InitPull /\ [][NextPull]_vars

\* the open pull requests of the remote whose head is the branch looked up
Matching == {pr \in Clone1.prs : pr.state = "open" /\ pr.head = last.arg}

\* C20: get_pull_request(branch) returns the open pull request whose head
\* is the branch when there is exactly one, None when there is none, and
\* raises RepositoryClientError, returning nothing, when there are several.
C20_SinglePullOrError ==
    last.op = "get_pull_request"
        => /\ Matching = {} => (last.err = NoError /\ last.ret = {})
           /\ Cardinality(Matching) = 1
                 => (last.err = NoError /\ last.ret = Matching)
           /\ Cardinality(Matching) > 1
                 => (last.err = RepositoryClientError /\ last.ret = {})

\* the one open pull request of the branch is returned although the remote
\* holds a closed one of the same branch and an open one of another branch
C20_Witness ==
    /\ last.op = "get_pull_request"
    /\ last.ret # {}
    /\ \E pr \in Clone1.prs : pr.state = "closed" /\ pr.head = last.arg
    /\ \E pr \in Clone1.prs : pr.state = "open" /\ pr.head # last.arg

(***************************************************************************)
(* Change summaries are added up one after another with DiffSummary's +.   *)
(***************************************************************************)
SumStep(s) ==
    /\ Len(ds.terms) < MaxTerms
    /\ ds' = [acc |-> SummaryAdd(ds.acc, s), terms |-> Append(ds.terms, s)]
    /\ UNCHANGED <<gitVars, orchVars, tf, mg, cr, jb>>

InitSum ==
    /\ repos = [h \in RepoIds |-> Clone(h = Batch[1])]
    /\ last = NoCall
    /\ InitOrch
    /\ InitLib

NextSum == \E s \in Summaries : SumStep(s)

SpecSum == InitSum /\ [][NextSum]_vars

\* C21: + on change summaries is commutative and associative, the empty
\* not-dirty summary is its identity, and a sum is dirty exactly when one of
\* its terms is.
C21_SummaryMonoid ==
    /\ \A i \in DOMAIN ds.terms :
          /\ SummaryAdd(ds.terms[i], EmptySummary) = ds.terms[i]
          /\ SummaryAdd(EmptySummary, ds.terms[i]) = ds.terms[i]
          /\ SummaryAdd(ds.acc, ds.terms[i]) = SummaryAdd(ds.terms[i], ds.acc)
    /\ ds.acc.is_dirty = (\E i \in DOMAIN ds.terms : ds.terms[i].is_dirty)
    /\ Len(ds.terms) = 2
          => /\ ds.acc = SummaryAdd(ds.terms[1], ds.terms[2])
             /\ ds.acc = SummaryAdd(ds.terms[2], ds.terms[1])
             /\ \A z \in Summaries :
                   SummaryAdd(ds.acc, z)
                      = SummaryAdd(ds.terms[1], SummaryAdd(ds.terms[2], z))

\* a clean summary listing a modified file was added to a dirty one listing
\* a new file
C21_Witness ==
    /\ Len(ds.terms) = 2
    /\ ds.terms[1].is_dirty /\ ds.terms[1].new = {"a"}
    /\ ~ds.terms[2].is_dirty /\ ds.terms[2].modified = {"b"}
    /\ ds.acc = [is_dirty |-> TRUE, new |-> {"a"}, removed |-> {},
                 modified |-> {"b"}]

(***************************************************************************)
(* Acquiring a repository: from_dict and from_tf_modules open the handle   *)
(* and switch to the home branch of its units when a remote has it;        *)
(* cut_release then creates the release branch when it is nowhere, and     *)
(* switches to it.                                                         *)
(***************************************************************************)
Acquired(r, branch) ==
    IF branch \in remote_branches(r) THEN Switch(r, branch)
    ELSE Outcome(r, NoError)

CallAcquire(branch) ==
    /\ WithinBounds(repos[Handle])
    /\ Called("acquire", branch, Acquired(repos[Handle], branch))

CallCutPreamble(dry_run) ==
    /\ WithinBounds(repos[Handle])
    /\ Called("cut_preamble", ReleaseBranch,
              CutPreamble(repos[Handle], dry_run))

NextAcquire ==
    \/ \E p \in Paths, c \in FileContents : CallEdit(p, c)
    \/ \E branch \in HomeBranches : CallAcquire(branch)
    \/ \E dry_run \in BOOLEAN : CallCutPreamble(dry_run)

SpecAcquire == InitGit /\ [][NextAcquire]_vars

\* C22: once a repository is acquired, by from_dict or from_tf_modules or by
\* the first steps of cut_release, its handle is checked out on the home
\* branch of its units, which exists locally.
C22_AcquiredOnHomeBranch ==
    (last.op \in {"acquire", "cut_preamble"} /\ last.err = NoError)
        => /\ current_branch(Clone1) = last.arg
           /\ last.arg \in branches(Clone1)

\* C23: a job works on one repository at a time, in the order of the batch:
\* a step changes only the repository the loop stands on, and when the
\* transaction of a repository begins, every repository before it has been
\* gone through and has left the working branch.
C23_OneAtATime ==
    [][/\ \A h \in RepoIds :
             repos'[h] # repos[h]
                => (pc # "idle" /\ cursor <= Len(Batch) /\ h = Batch[cursor])
       /\ (pc = "loop" /\ pc' = "body")
             => \A i \in 1 .. (cursor - 1) :
                   /\ Batch[i] \in visited
                   /\ current_branch(repos'[Batch[i]]) # WorkBranch
                   /\ repos'[Batch[i]] = repos[Batch[i]]]_vars

\* the transaction of the second repository makes a commit after the first
\* repository got its working branch
C23_Witness ==
    /\ pc = "body"
    /\ cursor = 2
    /\ ctx.commits > 0
    /\ repos[Batch[1]].heads[WorkBranch] > 1
    /\ current_branch(repos[Batch[1]]) # WorkBranch

\* C24: when the transformation of canon_run raises after update_branch has
\* committed and pushed, the exit of the scope leaves the remote working
\* branch on the pushed commit and checks out the branch the transaction
\* started from.
C24_PushedCommitsStay ==
    [][(/\ pc = "exit" /\ pc' # "exit"
        /\ job.kind = "canon_run" /\ ~job.dry_run
        /\ ctx.exc = TransformError
        /\ ctx.commits > 0)
          => /\ repos'[Current].rheads[WorkBranch]
                   = repos[Current].heads[WorkBranch]
             /\ repos'[Current].rheads[WorkBranch] # ctx.hash
             /\ current_branch(repos'[Current]) = ctx.saved]_vars

\* the scope has been left on the exception of the transformation, the
\* pushed commit is on the remote working branch
C24_Witness ==
    /\ pc = "idle"
    /\ job.kind = "canon_run" /\ ~job.dry_run
    /\ ctx.exc = TransformError
    /\ ctx.commits > 0
    /\ \E h \in RepoIds :
          /\ repos[h].rheads[WorkBranch] > 2
          /\ repos[h].rheads[WorkBranch] = repos[h].heads[WorkBranch]
          /\ current_branch(repos[h]) = ctx.saved

(***************************************************************************)
(* create_repository_client_from_url, statement by statement.  The url is  *)
(* an https url, an ssh url, or one neither pattern matches; the directory *)
(* of the clone exists already or not, with the same remote or another.    *)
(***************************************************************************)
UrlKinds == {"https", "ssh", "invalid"}
LocalKinds == {"missing", "same_remote", "other_remote", "not_a_repository"}
InvalidGitRepositoryError == "InvalidGitRepositoryError"

\* local_repo.remote().url of the copy found at the target path
LocalOrigin(exists, url) == IF exists = "same_remote" THEN url ELSE "elsewhere"

\* A comparison that accepts any remote
RemoteAccepted(origin, remote_url) == FALSE

\* if local_repo.remote().url != remote_url
RemoteMismatch(origin, remote_url) == origin # remote_url

\* `not credentials`: None is falsy, an instance of the dataclass is truthy
Falsy(credentials) == credentials.none

\* credentials that are absent or hold an empty username or access token
FalsyOrEmpty(credentials) ==
    credentials.none \/ credentials.username = "" \/ credentials.access_token = ""

CreateGoes(at, op) ==
    cr' = [cr EXCEPT !.at = at,
                     !.ops = IF op = "" THEN cr.ops ELSE Append(cr.ops, op)]

CreateRaises(err) == cr' = [cr EXCEPT !.at = "raised", !.err = err]

\* if not credentials: raise InputError
CheckCredentials ==
    /\ cr.at = "credentials"
    /\ IF Falsy(cr.credentials) THEN CreateRaises(InputError)
       ELSE CreateGoes("github", "")
    /\ UNCHANGED <<gitVars, orchVars, tf, mg, ds, jb>>

\* Github(auth=Token(access_token)): Token asserts a non-empty string
GithubClient ==
    /\ cr.at = "github"
    /\ IF cr.credentials.access_token = "" THEN CreateRaises(AssertionError)
       ELSE CreateGoes("name", "")
    /\ UNCHANGED <<gitVars, orchVars, tf, mg, ds, jb>>

\* _get_repository_name_from_git_url, then get_repo on the remote API
GetRepo ==
    /\ cr.at = "name"
    /\ IF cr.url = "invalid" THEN CreateRaises(InputError)
       ELSE CreateGoes("local", "get_repo")
    /\ UNCHANGED <<gitVars, orchVars, tf, mg, ds, jb>>

\* the directory exists: it is opened (Repo raises when it holds no
\* repository) and its remote compared; else the URL is cloned
OpenOrClone ==
    /\ cr.at = "local"
    /\ IF cr.exists = "missing"
       THEN cr' = [cr EXCEPT !.at = "config", !.origin = cr.url,
                             !.ops = Append(cr.ops, "clone")]
       ELSE IF cr.exists = "not_a_repository"
       THEN CreateRaises(InvalidGitRepositoryError)
       ELSE IF RemoteMismatch(LocalOrigin(cr.exists, cr.url), cr.url)
       THEN cr' = [cr EXCEPT !.at = "raised", !.err = InputError,
                             !.origin = LocalOrigin(cr.exists, cr.url),
                             !.ops = Append(cr.ops, "open")]
       ELSE cr' = [cr EXCEPT !.at = "config",
                             !.origin = LocalOrigin(cr.exists, cr.url),
                             !.ops = Append(cr.ops, "open")]
    /\ UNCHANGED <<gitVars, orchVars, tf, mg, ds, jb>>

\* user.name and user.password are written to the configuration
Configure ==
    /\ cr.at = "config"
    /\ CreateGoes("returned", "config")
    /\ UNCHANGED <<gitVars, orchVars, tf, mg, ds, jb>>

InitCreate ==
    /\ repos = [h \in RepoIds |-> Clone(h = Batch[1])]
    /\ last = NoCall
    /\ InitOrch
    /\ tf = NoTf
    /\ mg = NoMerge
    /\ ds = NoSum
    /\ cr \in {[NoCreate EXCEPT !.credentials = c, !.url = u, !.exists = e] :
                 c \in Credentials, u \in UrlKinds, e \in LocalKinds}
    /\ jb = NoJb

NextCreate ==
    \/ CheckCredentials
    \/ GithubClient
    \/ GetRepo
    \/ OpenOrClone
    \/ Configure

SpecCreate == InitCreate /\ [][NextCreate]_vars

\* C25: with credentials that are absent, or whose username or access token
\* is empty, creating the handle raises InputError, and no clone, open or
\* remote call has been made.
C25_EmptyCredentialsRejected ==
    FalsyOrEmpty(cr.credentials)
        => /\ cr.ops = <<>>
           /\ cr.at # "returned"
           /\ cr.at = "raised" => cr.err = InputError

\* the turns of the loop of from_tf_modules made so far
Opened == {tf.opened[k] : k \in DOMAIN tf.opened}
Kept == {tf.groups[k] : k \in DOMAIN tf.groups}

\* C26: a unit whose descriptor is not found is dropped from the units of
\* its repository and nothing else: the other units of the repository are
\* kept, a repository without unit left is not in the result, the loop goes
\* on to the end of the units, and only inconsistent branches end it early.
C26_MissingDescriptorSkipped ==
    /\ {g.units : g \in Kept} = {e.found : e \in Opened} \ {{}}
    /\ Len(tf.groups) = Cardinality({k \in DOMAIN tf.opened :
                                        tf.opened[k].found # {}})
    /\ tf.err # NoError
          => /\ tf.err = AssertionError
             /\ Cardinality(GroupBranches(iter_charms, tf.pos,
                                          RunEnd(iter_charms, tf.pos))) # 1
    /\ (tf.done /\ tf.err = NoError)
          => UNION {e.units : e \in Opened} = DOMAIN iter_charms

\* construction returned after a repository lost one unit of two, and
\* another repository lost its only unit
C26_Witness ==
    /\ tf.done /\ tf.err = NoError
    /\ \E e \in Opened : e.found # {} /\ e.found # e.units
    /\ \E e \in Opened : e.found = {}
    /\ Len(tf.groups) = 1

(***************************************************************************)
(* Pull requests opened from one handle: files are edited and committed    *)
(* locally, branches switched, and create_pull_request called with or      *)
(* without a body.                                                         *)
(***************************************************************************)
CallCreatePullRequest(base, body) ==
    /\ WithinBounds(repos[Handle])
    /\ Cardinality(repos[Handle].prs) < MaxRemotePulls
    /\ Called("create_pull_request", base,
              CreatePullRequest(repos[Handle], base, body))

NextPullRequest ==
    \/ \E c \in FileContents : CallEdit("a", c)
    \/ CallUpdateBranch(".", FALSE, FALSE)
    \/ \E name \in BranchNames : CallSwitchClean(name)
    \/ \E base \in BranchNames, body \in BOOLEAN :
          CallCreatePullRequest(base, body)

SpecPullRequest == InitCommit /\ [][NextPullRequest]_vars

\* C27: whenever create_pull_request creates a pull request, its head is the
\* checked-out branch and the remote holds that branch at the commit the
\* local branch is on.
C27_PushedBeforePull ==
    [][last'.op = "create_pull_request"
          => \A pr \in Clone1'.prs \ Clone1.prs :
                /\ pr.head = current_branch(Clone1)
                /\ Clone1'.rheads[pr.head] = Clone1.heads[pr.head]
                /\ Clone1'.heads[pr.head] = Clone1.heads[pr.head]]_vars

\* a pull request was created for a branch whose last commit was made
\* locally: the call has pushed it
C27_Witness ==
    /\ last.op = "create_pull_request"
    /\ last.err = NoError
    /\ \E pr \in Clone1.prs :
          /\ pr.head = last.cur
          /\ pr.id = Cardinality(Clone1.prs)
          /\ Clone1.rheads[pr.head] = Clone1.heads[pr.head]
          /\ Clone1.rheads[pr.head] > 2

(***************************************************************************)
(* Client.tag_exists and Client.tag_commit.  A commit is named by its      *)
(* number in the store; a number beyond the store is a sha git cannot      *)
(* resolve.                                                                *)
(***************************************************************************)
CommitShas == 1 .. 3

\* git fetch --all --tags --force: every tag of the remote overwrites the
\* local tag of that name, the other local tags stay
GitFetchTags(r) ==
    [r EXCEPT !.tags = [t \in TagNames |->
                          IF r.rtags[t] # 0 THEN r.rtags[t] ELSE r.tags[t]]]

\* what tag_exists returns on the fetched clone: None, or the commit
tag_exists(fetched, tag_name) ==
    IF fetched.tags[tag_name] = 0 THEN {} ELSE {fetched.tags[tag_name]}

\* git tag -d <tag>; git push --delete origin <tag>: the push fails when the
\* remote has no such tag
TagRemoved(r, tag_name) ==
    IF r.rtags[tag_name] = 0
    THEN Outcome([r EXCEPT !.tags[tag_name] = 0], GitCommandError)
    ELSE Outcome([r EXCEPT !.tags[tag_name] = 0, !.rtags[tag_name] = 0],
                 NoError)

\* A tagging that does not push the new tag
TagCreatedLocally(removed, tag_name, commit_sha) ==
    IF removed.err # NoError THEN removed
    ELSE IF commit_sha > Len(removed.r.commits)
    THEN Outcome(removed.r, GitCommandError)
    ELSE Outcome([removed.r EXCEPT !.tags[tag_name] = commit_sha], NoError)

\* git tag <tag> <sha>; git push origin <tag>
TagCreated(removed, tag_name, commit_sha) ==
    IF removed.err # NoError THEN removed
    ELSE IF commit_sha > Len(removed.r.commits)
    THEN Outcome(removed.r, GitCommandError)
    ELSE Outcome([removed.r EXCEPT !.tags[tag_name] = commit_sha,
                                   !.rtags[tag_name] = commit_sha], NoError)

TagFetched(fetched, tag_name, commit_sha) ==
    Wrapped(TagCreated(IF tag_exists(fetched, tag_name) # {}
                       THEN TagRemoved(fetched, tag_name)
                       ELSE Outcome(fetched, NoError),
                       tag_name, commit_sha))

TagCommit(r, tag_name, commit_sha) ==
    TagFetched(GitFetchTags(r), tag_name, commit_sha)

\* ret keeps what the tag_exists call of tag_commit found
CallTagCommit(tag_name, commit_sha) ==
    Returned("tag_commit", tag_name,
             TagCommit(repos[Handle], tag_name, commit_sha),
             tag_exists(GitFetchTags(repos[Handle]), tag_name))

\* a tag is made in the clone by hand, or pushed to the remote from elsewhere
LocalTag(tag_name, commit_sha) ==
    /\ repos[Handle].tags[tag_name] = 0
    /\ commit_sha <= Len(repos[Handle].commits)
    /\ Called("git_tag", tag_name,
              Outcome([repos[Handle] EXCEPT !.tags[tag_name] = commit_sha],
                      NoError))

RemoteTag(tag_name, commit_sha) ==
    /\ commit_sha <= Len(repos[Handle].commits)
    /\ repos[Handle].rtags[tag_name] # commit_sha
    /\ Called("remote_tag", tag_name,
              Outcome([repos[Handle] EXCEPT !.rtags[tag_name] = commit_sha],
                      NoError))

NextTag ==
    \/ \E t \in TagNames, c \in CommitShas : CallTagCommit(t, c)
    \/ \E t \in TagNames, c \in CommitShas : LocalTag(t, c)
    \/ \E t \in TagNames, c \in CommitShas : RemoteTag(t, c)

SpecTag == InitGit /\ [][NextTag]_vars

\* C28: when tag_commit(tag, commit) returns, the local tag and the remote
\* tag of that name are both on the commit, whatever tag of that name was
\* there before.
C28_TagMoved ==
    [][\A t \in TagNames, c \in CommitShas :
          (CallTagCommit(t, c) /\ last'.err = NoError)
             => /\ Clone1'.tags[t] = c
                /\ Clone1'.rtags[t] = c]_vars

\* tag_commit found the tag on the first commit and has moved it, locally
\* and on the remote, to the second
C28_Witness ==
    /\ last.op = "tag_commit"
    /\ last.err = NoError
    /\ last.ret = {1}
    /\ Clone1.tags[last.arg] = 2
    /\ Clone1.rtags[last.arg] = 2

(***************************************************************************)
(* Client.is_dirty: the status of the clone, or of the clone as it is     *)
(* inside a with_branch scope of the branch given.                         *)
(***************************************************************************)
NoBranch == "None"

\* what client.is_dirty() returns inside the scope; nothing when the switch
\* into the scope raised
DirtyInside(enter) == IF enter.err = NoError THEN {IsDirty(enter.r)} ELSE {}

DirtyReturned(enter, scope) ==
    IF scope.err = NoError THEN DirtyInside(enter) ELSE {}

CallIsDirty(branch_name) ==
    IF branch_name = NoBranch
    THEN Returned("is_dirty", branch_name, Outcome(repos[Handle], NoError),
                  {IsDirty(repos[Handle])})
    ELSE /\ WithinBounds(repos[Handle])
         /\ Returned("is_dirty", branch_name,
                     WithBranchScope(repos[Handle], branch_name, <<>>, FALSE),
                     DirtyReturned(WithBranchEnter(repos[Handle], branch_name),
                                   WithBranchScope(repos[Handle], branch_name,
                                                   <<>>, FALSE)))

NextDirty ==
    \/ \E p \in Paths, c \in FileContents : CallEdit(p, c)
    \/ \E name \in DirNames : CallGetSummary(name)
    \/ \E name \in BranchNames : CallSwitch(name)
    \/ \E name \in BranchNames \cup {NoBranch} : CallIsDirty(name)

SpecDirty == InitGit /\ [][NextDirty]_vars

\* some file of the index differs from HEAD, or some file of the working
\* tree, tracked or not, differs from the index
IndexOrTreeDiffers(r) ==
    \E p \in Paths : r.idx[p] # HeadTree(r)[p] \/ r.wt[p] # r.idx[p]

\* C29: is_dirty() changes nothing and is true exactly when the index differs
\* from HEAD or the working tree, untracked files included, differs from the
\* index; is_dirty(branch), returning or raising, leaves the checked-out
\* branch as it was before the call.
C29_DirtyIndexOrTree ==
    [][last'.op = "is_dirty"
         => /\ current_branch(Clone1') = current_branch(Clone1)
            /\ last'.arg = NoBranch
                  => /\ repos' = repos
                     /\ last'.ret = {IndexOrTreeDiffers(Clone1)}]_vars

\* C29 as stated: is_dirty() is true exactly when the working tree differs
\* from HEAD.
C29_DirtyTreeOnly ==
    [][(last'.op = "is_dirty" /\ last'.arg = NoBranch)
         => last'.ret = {Clone1.wt # HeadTree(Clone1)}]_vars

\* is_dirty(branch) went through a scope on another branch and returned true
\* for a file that is not tracked
C29_Witness ==
    /\ last.op = "is_dirty"
    /\ last.err = NoError
    /\ last.ret = {TRUE}
    /\ last.arg # NoBranch
    /\ last.arg # last.cur
    /\ current_branch(Clone1) = last.cur
    /\ \E p \in Paths : /\ HeadTree(Clone1)[p] = "absent"
                         /\ Clone1.wt[p] # "absent"


\* the paths under a directory that the working tree holds otherwise than
\* the HEAD commit does: added, removed or modified
ChangedUnder(r, directory) == {p \in directory : r.wt[p] # HeadTree(r)[p]}

\* C30: a get_summary that returns has staged the directory and returns the
\* merge of the summary of the index against the working tree and the
\* summary of HEAD against the index, and every path under the directory
\* that is added, removed or modified relative to HEAD is listed in it.
C30_EveryChangeListed ==
    [][(last'.op = "get_summary" /\ last'.err = NoError)
         => /\ \A p \in Dir(last'.arg) : Clone1'.idx[p] = Clone1.wt[p]
            /\ last'.ret = {SummaryAdd(from_raw_diff(IndexDiff(Clone1')),
                                       from_raw_diff(HeadDiff(Clone1')))}
            /\ ChangedUnder(Clone1, Dir(last'.arg)) \subseteq Listed(last'.ret)]_vars


(***************************************************************************)
(* A job built by from_tf_modules or from_dict, written with to_dict and   *)
(* dump, and read back with read and from_dict.  A value of a dictionary   *)
(* is a Python value with its type; a path is the sequence of its          *)
(* components, "." being the empty one.                                    *)
(***************************************************************************)
MaxItems == 2
JobBranches == {"main", "1.0"}
UnitNames == {"n1", "n2"}
ModulePaths == {<<"terraform">>, <<"a", "terraform">>, <<"a", "tf">>}
DirTexts == {".", "a"}

PyStr(s) == [type |-> "str", val |-> s]

\* Path.parent, str(Path) and Path(str) for paths of at most one directory
Parent(p) == IF Len(p) <= 1 THEN <<>> ELSE SubSeq(p, 1, Len(p) - 1)
PathStr(p) == IF p = <<>> THEN "." ELSE p[1]
PathOf(text) == IF text = "." THEN <<>> ELSE <<text>>

\* the units parse_repos_from_module reads from the module sources
TfUnits == [name : UnitNames, url : Urls \cup BLACK_LIST,
            tf_module : ModulePaths, branch : JobBranches]

CharmRepoOf(u) == [name |-> PyStr(u.name), url |-> PyStr(u.url),
                   tf_module |-> u.tf_module, branch |-> PyStr(u.branch)]

\* the items of a job file written by hand
CharmItems == [path : {PyStr(t) : t \in DirTexts},
               name : {PyStr(n) : n \in UnitNames}]
Items == [url : {PyStr(u) : u \in Urls},
          branch : {PyStr(b) : b \in JobBranches},
          charms : SeqsUpTo(CharmItems, MaxItems)]

\* get_metadata(repo.base_path / charm.tf_module.parent) inside safe(...):
\* env holds the directories of the clone that have a descriptor
HasMetadata(c, env) == PathStr(Parent(c.tf_module)) \in env

WithMetadata(charms, env) == SelectSeq(charms, LAMBDA c : HasMetadata(c, env))

\* A construction that keeps a repository whose units were all dropped
KeptAnyway(entry) == TRUE

\* if len(charms)==0: continue
KeptEntry(entry) == entry.charms # <<>>

(***************************************************************************)
(* KubeflowCI.from_tf_modules as a function of the units                   *)
(***************************************************************************)
TfEntry(us, i, j, env) ==
    [url |-> PyStr(us[i].url),
     charms |-> WithMetadata([k \in 1 .. (j - i + 1) |-> CharmRepoOf(us[i + k - 1])],
                             env)]

RECURSIVE TfJob(_, _, _)
TfJob(us, i, env) ==
    IF i > Len(us) THEN <<>>
    ELSE (IF KeptEntry(TfEntry(us, i, RunEnd(us, i), env))
          THEN <<TfEntry(us, i, RunEnd(us, i), env)>> ELSE <<>>)
         \o TfJob(us, RunEnd(us, i) + 1, env)

\* assert len(branches) == 1 fails for some group
TfRaises(us) ==
    \E i \in DOMAIN us :
       /\ i = 1 \/ us[i - 1].url # us[i].url
       /\ Cardinality(GroupBranches(us, i, RunEnd(us, i))) # 1

(***************************************************************************)
(* KubeflowCI.from_dict                                                    *)
(***************************************************************************)
CharmOf(item, charm_data) ==
    [name |-> charm_data.name, url |-> item.url,
     tf_module |-> Append(PathOf(charm_data.path.val), "terraform"),
     branch |-> item.branch]

ItemEntry(item, env) ==
    [url |-> item.url,
     charms |-> WithMetadata([j \in DOMAIN item.charms |->
                                 CharmOf(item, item.charms[j])], env)]

RECURSIVE from_dict(_, _)
from_dict(data, env) ==
    IF data = <<>> THEN <<>>
    ELSE (IF KeptEntry(ItemEntry(Head(data), env))
          THEN <<ItemEntry(Head(data), env)>> ELSE <<>>)
         \o from_dict(Tail(data), env)

(***************************************************************************)
(* KubeflowRepo.to_dict and KubeflowCI.to_dict                             *)
(***************************************************************************)
RepoBranches(repo) == {repo.charms[k].branch : k \in DOMAIN repo.charms}

CharmToDict(charm) ==
    [path |-> PyStr(PathStr(Parent(charm.tf_module))), name |-> charm.name]

RepoToDict(repo) ==
    [url |-> repo.url,
     branch |-> CHOOSE b \in RepoBranches(repo) : TRUE,
     charms |-> [k \in DOMAIN repo.charms |-> CharmToDict(repo.charms[k])]]

to_dict(rs) == [k \in DOMAIN rs |-> RepoToDict(rs[k])]

\* assert len(branches) == 1 fails for some repository
ToDictRaises(rs) ==
    \E k \in DOMAIN rs : Cardinality(RepoBranches(rs[k])) # 1

(***************************************************************************)
(* yaml.dump and yaml.safe_load: a scalar is written plain when the plain  *)
(* text reads back as a string, quoted otherwise; a plain scalar is read   *)
(* with the type its text resolves to.                                     *)
(***************************************************************************)
FloatTexts == {"1.0"}
ImplicitType(text) == IF text \in FloatTexts THEN "float" ELSE "str"

\* A writer that quotes nothing
RepresentPlain(v) == [text |-> v.val, style |-> "plain"]

Represent(v) ==
    [text |-> v.val,
     style |-> IF v.type = "str" /\ ImplicitType(v.val) # "str"
               THEN "quoted" ELSE "plain"]

Construct(n) ==
    [type |-> IF n.style = "quoted" THEN "str" ELSE ImplicitType(n.text),
     val |-> n.text]

DumpCharm(c) == [path |-> Represent(c.path), name |-> Represent(c.name)]
DumpItem(item) ==
    [url |-> Represent(item.url), branch |-> Represent(item.branch),
     charms |-> [j \in DOMAIN item.charms |-> DumpCharm(item.charms[j])]]
yaml_dump(data) == [k \in DOMAIN data |-> DumpItem(data[k])]

LoadCharm(c) == [path |-> Construct(c.path), name |-> Construct(c.name)]
LoadItem(item) ==
    [url |-> Construct(item.url), branch |-> Construct(item.branch),
     charms |-> [j \in DOMAIN item.charms |-> LoadCharm(item.charms[j])]]
yaml_load(text) == [k \in DOMAIN text |-> LoadItem(text[k])]

(***************************************************************************)
(* The calls.                                                              *)
(***************************************************************************)
JbFromTfModules ==
    /\ jb.at = "units"
    /\ jb' = IF TfRaises(SelectUnits(jb.units))
             THEN [jb EXCEPT !.at = "raised", !.err = AssertionError]
             ELSE [jb EXCEPT !.at = "built",
                             !.job = TfJob(SelectUnits(jb.units), 1, jb.env)]
    /\ UNCHANGED <<gitVars, orchVars, tf, mg, ds, cr>>

JbFromDict ==
    /\ jb.at = "data"
    /\ jb' = [jb EXCEPT !.at = "built", !.job = from_dict(jb.data, jb.env)]
    /\ UNCHANGED <<gitVars, orchVars, tf, mg, ds, cr>>

JbDump ==
    /\ jb.at = "built"
    /\ jb' = IF ToDictRaises(jb.job)
             THEN [jb EXCEPT !.at = "raised", !.err = AssertionError]
             ELSE [jb EXCEPT !.at = "dumped",
                             !.text = yaml_dump(to_dict(jb.job))]
    /\ UNCHANGED <<gitVars, orchVars, tf, mg, ds, cr>>

JbRead ==
    /\ jb.at = "dumped"
    /\ jb' = [jb EXCEPT !.at = "read",
                        !.back = from_dict(yaml_load(jb.text), jb.env)]
    /\ UNCHANGED <<gitVars, orchVars, tf, mg, ds, cr>>

InitJob ==
    /\ repos = [h \in RepoIds |-> Clone(h = Batch[1])]
    /\ last = NoCall
    /\ InitOrch
    /\ tf = NoTf
    /\ mg = NoMerge
    /\ ds = NoSum
    /\ cr = NoCreate
    /\ jb \in {[NoJb EXCEPT !.at = "units", !.units = us, !.env = env] :
                 us \in SeqsUpTo(TfUnits, MaxItems), env \in SUBSET DirTexts}
          \cup {[NoJb EXCEPT !.at = "data", !.data = d, !.env = env] :
                 d \in SeqsUpTo(Items, MaxItems), env \in SUBSET DirTexts}

NextJob ==
    \/ JbFromTfModules
    \/ JbFromDict
    \/ JbDump
    \/ JbRead

SpecJob == InitJob /\ [][NextJob]_vars

\* the repository entry read back has the URL, the home branch and, unit by
\* unit, the name and the path of the entry written
SameEntry(x, y) ==
    /\ x.url = y.url
    /\ RepoBranches(x) = RepoBranches(y)
    /\ Len(x.charms) = Len(y.charms)
    /\ \A j \in DOMAIN x.charms :
          /\ x.charms[j].name = y.charms[j].name
          /\ Parent(x.charms[j].tf_module) = Parent(y.charms[j].tf_module)

\* C31: a job built by from_tf_modules or from_dict, written by to_dict and
\* dump and read back by read and from_dict over the same clones, has the
\* same repositories in the same order, each with the same URL and home
\* branch and, for every unit, the same name and path.
C31_RoundTrip ==
    jb.at = "read"
        => /\ Len(jb.back) = Len(jb.job)
           /\ \A k \in DOMAIN jb.job : SameEntry(jb.job[k], jb.back[k])

\* a job of two repositories was read back, one on a branch whose name
\* reads as a number, one with a module directory not called terraform
C31_Witness ==
    /\ jb.at = "read"
    /\ Len(jb.job) = 2
    /\ PyStr("1.0") \in RepoBranches(jb.job[1])
    /\ \E j \in DOMAIN jb.job[2].charms :
          jb.job[2].charms[j].tf_module = <<"a", "tf">>


\* every repository entry has a first unit, and its units declare one branch
WellFormed(rs) ==
    \A k \in DOMAIN rs :
       /\ rs[k].charms # <<>>
       /\ \A j \in DOMAIN rs[k].charms :
             rs[k].charms[j].branch = rs[k].charms[1].branch

\* C37: every repository entry of a job built by from_dict or by
\* from_tf_modules has at least one unit, and all its units declare the
\* branch of the first one, which is what cut_release reads.
C37_EntriesHaveHomeBranch ==
    /\ jb.at \in {"built", "dumped", "read"} => WellFormed(jb.job)
    /\ jb.at = "read" => WellFormed(jb.back)

\* from_tf_modules returned one repository out of two: the units of the
\* other had no descriptor
C37_Witness ==
    /\ jb.at = "built"
    /\ Len(jb.units) = 2
    /\ jb.units[1].url \in Urls
    /\ jb.units[2].url \in Urls \ {jb.units[1].url}
    /\ Len(jb.job) = 1


\* the steps of the call made so far
CreateOps == {cr.ops[k] : k \in DOMAIN cr.ops}

\* C32: a handle is returned only on a local copy whose origin is the URL
\* requested; a local copy with another remote URL is opened, never cloned
\* over, and ends the call with InputError; a target path that does not
\* exist is never opened, and the handle returned for it is a clone.
C32_HandleOnRequestedUrl ==
    /\ cr.at = "returned"
          => /\ cr.origin = cr.url
             /\ cr.exists \in {"missing", "same_remote"}
             /\ cr.exists = "missing" => "clone" \in CreateOps
             /\ cr.exists = "same_remote" => "open" \in CreateOps
    /\ "clone" \in CreateOps => cr.exists = "missing"
    /\ "open" \in CreateOps => cr.exists \in {"same_remote", "other_remote"}
    /\ (cr.exists = "other_remote" /\ "open" \in CreateOps)
          => cr.at = "raised" /\ cr.err = InputError

\* a local copy with another remote was opened and the call raised
C32_Witness ==
    /\ cr.exists = "other_remote"
    /\ cr.origin = "elsewhere"
    /\ cr.at = "raised"
    /\ cr.err = InputError
    /\ cr.ops = <<"get_repo", "open">>


\* the pull requests of the repository being processed
CurrentPulls == repos[Current].prs

\* C33: while update_image_tags is in the scope of a repository in which
\* it has made no commit on the working branch, no step of it, the closing
\* create_pull_request included, creates a pull request.
C33_NoPullWithoutTagChange ==
    [][(job.kind = "update_image_tags" /\ pc \in {"body", "exit"}
          /\ ctx.commits = 0)
         => repos'[Current].prs = CurrentPulls]_vars

\* the closing create_pull_request of update_image_tags was reached with
\* every unit on its last tag, and it raised
C33_Witness ==
    /\ job.kind = "update_image_tags"
    /\ pc = "exit"
    /\ ctx.steps >= 1
    /\ ctx.commits = 0
    /\ ctx.exc = GitCommandError
    /\ current_commit(repos[Current]) = ctx.hash
    /\ CurrentPulls = {}


\* C34: in every outcome of switch (normal return, failed checkout,
\* conflicting restore) the stash holds the same entries after the call as
\* before it.
C34_SwitchKeepsStash ==
    [][last'.op = "switch" => Clone1'.stash = Clone1.stash]_vars


C36_NothingToCommitRaises ==
    [][(last'.op \in {"update_branch", "update_branch_push"}
          /\ ChangedUnder(Clone1, Dir(last'.arg)) = {})
         => /\ last'.err = RepositoryClientError
            /\ Clone1'.commits = Clone1.commits
            /\ current_commit(Clone1') = current_commit(Clone1)
            /\ Clone1'.rheads = Clone1.rheads]_vars


\* the release branch of a clone is on the remote, at the commit of the clone
ReleasePushed(r) ==
    /\ r.rheads[ReleaseBranch] # 0
    /\ r.rheads[ReleaseBranch] = r.heads[ReleaseBranch]

\* C38: in a cut_release that is no dry run, the release branch is on the
\* remote, at its local commit, from the moment the working branch has been
\* created and entered, and every pull request the job creates has the
\* working branch as head and that release branch as base.
C38_ReleasePushedFirst ==
    [][(job.kind = "cut_release" /\ ~job.dry_run /\ cursor \in DOMAIN Batch)
         => /\ pc' \in {"body", "exit"} => ReleasePushed(repos'[Current])
            /\ \A pr \in repos'[Current].prs \ CurrentPulls :
                  /\ pr.base = ReleaseBranch
                  /\ pr.head = WorkBranch
                  /\ ReleasePushed(repos[Current])]_vars

\* a cut_release opened a pull request in a repository whose remote had no
\* release branch when the batch started
C38_Witness ==
    /\ job.kind = "cut_release" /\ ~job.dry_run
    /\ pc = "exit"
    /\ Current = Batch[2]
    /\ ctx.exc = NoError
    /\ \E pr \in CurrentPulls : pr.base = ReleaseBranch /\ pr.head = WorkBranch
    /\ ReleasePushed(repos[Current])
    /\ TreeOf(repos[Current], repos[Current].rheads[ReleaseBranch]) = RootTree


\* the pattern a repository's own branch gives when the call had none
OwnFilter(branch) == IF branch = ReleaseBranch THEN branch ELSE "None"

PushedBranch(r, branch_name) ==
    IF branch_name = NoBranch THEN current_branch(r) ELSE branch_name

CallPush(branch_name, force) ==
    /\ WithinBounds(repos[Handle])
    /\ Called("push", PushedBranch(repos[Handle], branch_name),
              Push(repos[Handle], PushedBranch(repos[Handle], branch_name),
                   force))

NextPush ==
    \/ \E p \in Paths, c \in FileContents : CallEdit(p, c)
    \/ CallUpdateBranch(".", FALSE, FALSE)
    \/ \E name \in BranchNames \cup {NoBranch}, force \in BOOLEAN :
          CallPush(name, force)

SpecPush == InitCommit /\ [][NextPush]_vars

\* C40: a call of push moves no remote branch but the one named, and leaves
\* the checked-out branch, the current commit and the dirty status of the
\* working copy as they were, whether the push succeeded or raised.
C40_PushFrame ==
    [][last'.op = "push"
         => /\ \A b \in BranchNames \ {last'.arg} :
                  repos'[Handle].rheads[b] = repos[Handle].rheads[b]
            /\ current_branch(repos'[Handle]) = current_branch(repos[Handle])
            /\ current_commit(repos'[Handle]) = current_commit(repos[Handle])
            /\ IsDirty(repos'[Handle]) = IsDirty(repos[Handle])]_vars

====
